---- MODULE Spec2Model ----
(***************************************************************************)
(* Model of two stateless components of PennyLane:                         *)
(*   - the FlipSign template (templates/subroutines/flip_sign.py):         *)
(*     argument validation in __init__, the helpers to_list / to_number,   *)
(*     and compute_decomposition, whose gate list is then applied to a     *)
(*     register of basis-state amplitudes;                                 *)
(*   - the first-quantization resource estimator                           *)
(*     (resources/first_quantization.py): success_prob and norm, evaluated *)
(*     over sign classes of Python / NumPy numbers, with Python's          *)
(*     exceptions and the text written to standard output.                 *)
(* Specification Spec drives the FlipSign component, SpecEstimator the     *)
(* estimator.  Both are call harnesses: every action is one call (or one   *)
(* gate application) and records the call, its exception and its result.   *)
(***************************************************************************)
EXTENDS Integers, Sequences, FiniteSets, TLC

VARIABLES
    call,      \* the last call made: [fn, args]
    exc,       \* the exception that call raised, or NoExc
    ret,       \* the value that call returned, or None
    prev,      \* for to_number(to_list(..)): the to_list call whose result is decoded
    self,      \* the FlipSign operator object: [constructed, wires, n]
    op_list,   \* the gate list returned by compute_decomposition
    pc,        \* number of gates of op_list already applied to the register
    amp,       \* the register: basis state -> [src, sgn], amplitude = sgn * initial[src]
    stdout     \* lines written to standard output

vars == <<call, exc, ret, prev, self, op_list, pc, amp, stdout>>

----------------------------------------------------------------------------
(* Bounds of the model *)

\* largest number of wires of an operator
MaxWires == 3

\* largest magnitude of the integers handed to the estimator
MaxEta == 3

----------------------------------------------------------------------------
(* Python values *)

PyInt(k) == [ty |-> "int", num |-> k, items |-> <<>>, elt |-> "int"]
\* a list whose elements all have Python type elt
PyList(s, elt) == [ty |-> "list", num |-> 0, items |-> s, elt |-> elt]
PyOther(t) == [ty |-> t, num |-> 0, items |-> <<>>, elt |-> "int"]
None == PyOther("NoneType")

NoExc == [type |-> "None", line |-> 0]
Raise(type, line) == [type |-> type, line |-> line]

NoCall == [fn |-> "none", args |-> <<>>]
NoSelf == [constructed |-> FALSE, wires |-> <<>>, n |-> <<>>]

RECURSIVE Pow2(_)
Pow2(k) == IF k <= 0 THEN 1 ELSE 2 * Pow2(k - 1)

Range(s) == {s[i] : i \in 1..Len(s)}

\* np.array(v).dtype for a Python list or scalar
ArrayDtype(v) ==
    IF v.ty = "list"
    THEN IF Len(v.items) = 0 THEN "float64"
         ELSE IF v.elt = "int" THEN "int64"
         ELSE IF v.elt = "float" THEN "float64"
         ELSE "str"
    ELSE IF v.ty = "int" THEN "int64"
    ELSE IF v.ty = "float" THEN "float64"
    ELSE IF v.ty = "bool" THEN "bool"
    ELSE "object"

\* np.dtype("int")
DtypeInt == "int64"

----------------------------------------------------------------------------
(* FlipSign helpers: flip_sign.py *)

\* is_binary_array(arr): arr.astype exists only on arrays; a list raises
is_binary_array(arr) ==
    IF arr.ty = "list"
    THEN [exc |-> Raise("AttributeError", 122), ret |-> FALSE]
    ELSE [exc |-> NoExc, ret |-> arr.num \in {0, 1}]

\* f"{n:b}": the minimal binary digits of n, as a sequence of characters
RECURSIVE FormatBin(_)
FormatBin(n) ==
    IF n < 0 THEN <<"-">> \o FormatBin(-n)
    ELSE IF n < 2 THEN <<IF n = 0 THEN "0" ELSE "1">>
    ELSE FormatBin(n \div 2) \o <<IF n % 2 = 0 THEN "0" ELSE "1">>

\* str.zfill(width): pad with "0" on the left, after a leading sign
RECURSIVE zfill(_, _)
zfill(s, width) ==
    IF Len(s) >= width THEN s
    ELSE IF Len(s) > 0 /\ s[1] = "-" THEN zfill(<<"-", "0">> \o Tail(s), width)
    ELSE zfill(<<"0">> \o s, width)

\* int(i) of a one-character string
IntOfChar(c) == IF c = "0" THEN 0 ELSE IF c = "1" THEN 1 ELSE -1
IsDigit(c) == c \in {"0", "1"}

\* to_list(n, n_wires) without left padding
to_list_nopad(n, n_wires) ==
    IF n >= Pow2(n_wires)
    THEN [exc |-> Raise("ValueError", 135), ret |-> <<>>]
    ELSE LET b_str == FormatBin(n)
         IN  IF \E i \in 1..Len(b_str) : ~IsDigit(b_str[i])
             THEN [exc |-> Raise("ValueError", 138), ret |-> <<>>]
             ELSE [exc |-> NoExc, ret |-> [i \in 1..Len(b_str) |-> IntOfChar(b_str[i])]]

\* to_list(n, n_wires) with the overflow test written > instead of >=
to_list_gt(n, n_wires) ==
    IF n > Pow2(n_wires)
    THEN [exc |-> Raise("ValueError", 135), ret |-> <<>>]
    ELSE LET b_str == zfill(FormatBin(n), n_wires)
         IN  IF \E i \in 1..Len(b_str) : ~IsDigit(b_str[i])
             THEN [exc |-> Raise("ValueError", 138), ret |-> <<>>]
             ELSE [exc |-> NoExc, ret |-> [i \in 1..Len(b_str) |-> IntOfChar(b_str[i])]]

\* to_list(n, n_wires): [exc, ret]
to_list(n, n_wires) ==
    IF n >= Pow2(n_wires)
    THEN [exc |-> Raise("ValueError", 135), ret |-> <<>>]
    ELSE LET b_str == zfill(FormatBin(n), n_wires)
         IN  IF \E i \in 1..Len(b_str) : ~IsDigit(b_str[i])
             THEN [exc |-> Raise("ValueError", 138), ret |-> <<>>]
             ELSE [exc |-> NoExc, ret |-> [i \in 1..Len(b_str) |-> IntOfChar(b_str[i])]]

\* sum of arr_bin[i] * 2 ** (len(arr_bin) - i - 1) over the indices from k on
RECURSIVE SumFrom(_, _)
SumFrom(arr_bin, k) ==
    IF k > Len(arr_bin) THEN 0
    ELSE arr_bin[k] * Pow2(Len(arr_bin) - k) + SumFrom(arr_bin, k + 1)

\* to_number(arr_bin) with the exponent len(arr_bin) - i instead of len(arr_bin) - i - 1
to_number_exponent(arr_bin) == 2 * SumFrom(arr_bin, 1)

\* to_number(arr_bin)
to_number(arr_bin) == SumFrom(arr_bin, 1)

\* FlipSign.__init__(n, wires) with the state specifier validated before the wires
FlipSign_init_n_first(n, wires) ==
    IF n.ty # "int" \/ n.num < 0
    THEN [exc |-> Raise("ValueError", IF n.ty = "int" THEN 101 ELSE 105), n |-> <<>>, wires |-> <<>>]
    ELSE IF wires.ty # "list"
    THEN [exc |-> Raise("ValueError", 82), n |-> <<>>, wires |-> <<>>]
    ELSE IF Len(wires.items) = 0
    THEN [exc |-> Raise("ValueError", 85), n |-> <<>>, wires |-> <<>>]
    ELSE IF ArrayDtype(wires) # DtypeInt
    THEN [exc |-> Raise("ValueError", 88), n |-> <<>>, wires |-> <<>>]
    ELSE LET l == to_list(n.num, Len(wires.items))
         IN  IF l.exc # NoExc
             THEN [exc |-> l.exc, n |-> <<>>, wires |-> <<>>]
             ELSE [exc |-> NoExc, n |-> l.ret, wires |-> wires.items]

\* lines 90-95: a list specifier is converted to a number only when the wires
\* are not an integer array and the list is binary
ListToNumber(n, wires) ==
    IF n.ty = "list" /\ ArrayDtype(wires) # DtypeInt
    THEN LET b == is_binary_array(n)
         IN  IF b.exc # NoExc THEN [exc |-> b.exc, n |-> n]
             ELSE IF b.ret THEN [exc |-> NoExc, n |-> PyInt(to_number(n.items))]
             ELSE [exc |-> NoExc, n |-> n]
    ELSE [exc |-> NoExc, n |-> n]

\* lines 97-107: only a non-negative int is accepted and expanded by to_list
IntToList(n, n_wires) ==
    IF n.ty = "int"
    THEN IF n.num >= 0
         THEN LET l == to_list(n.num, n_wires)
              IN  [exc |-> l.exc, n |-> PyList(l.ret, "int")]
         ELSE [exc |-> Raise("ValueError", 101), n |-> n]
    ELSE [exc |-> Raise("ValueError", 105), n |-> n]

\* FlipSign.__init__(n, wires): [exc, n, wires]; n and wires are what the
\* operator stores (hyperparameter n, wires) when no exception is raised
FlipSign_init(n, wires) ==
    IF wires.ty # "list"
    THEN [exc |-> Raise("ValueError", 82), n |-> <<>>, wires |-> <<>>]
    ELSE IF Len(wires.items) = 0
    THEN [exc |-> Raise("ValueError", 85), n |-> <<>>, wires |-> <<>>]
    ELSE IF ArrayDtype(wires) # DtypeInt
    THEN [exc |-> Raise("ValueError", 88), n |-> <<>>, wires |-> <<>>]
    ELSE LET n1 == ListToNumber(n, wires)
         IN  IF n1.exc # NoExc
             THEN [exc |-> n1.exc, n |-> <<>>, wires |-> <<>>]
             ELSE LET n2 == IntToList(n1.n, Len(wires.items))
                  IN  IF n2.exc # NoExc
                      THEN [exc |-> n2.exc, n |-> <<>>, wires |-> <<>>]
                      ELSE IF ArrayDtype(n2.n) # DtypeInt
                      THEN [exc |-> Raise("ValueError", 110), n |-> <<>>, wires |-> <<>>]
                      ELSE [exc |-> NoExc, n |-> n2.n.items, wires |-> wires.items]

----------------------------------------------------------------------------
(* compute_decomposition and the gates it emits *)

PauliX(wire) ==
    [name |-> "PauliX", wires |-> <<wire>>, control |-> <<>>, control_values |-> <<>>]

\* qml.ctrl(qml.PauliZ, control=control, control_values=control_values)(wires=wire)
CtrlPauliZ(control, control_values, wire) ==
    [name |-> "C(PauliZ)", wires |-> <<wire>>, control |-> control,
     control_values |-> control_values]

\* s[:-1] and s[-1] of a non-empty Python sequence
ButLast(s) == SubSeq(s, 1, Len(s) - 1)
Last(s) == s[Len(s)]

\* compute_decomposition without the second PauliX
compute_decomposition_no_restore(wires, n) ==
    IF Len(wires) = Len(n)
    THEN IF Len(n) = 0
         THEN [exc |-> Raise("IndexError", 174), op_list |-> <<>>]
         ELSE [exc |-> NoExc,
               op_list |-> (IF Last(n) = 0 THEN <<PauliX(Last(wires))>> ELSE <<>>)
                           \o <<CtrlPauliZ(ButLast(wires), ButLast(n), Last(wires))>>]
    ELSE [exc |-> Raise("ValueError", 184), op_list |-> <<>>]

\* compute_decomposition with control_values left at their default (all 1)
compute_decomposition_default_values(wires, n) ==
    IF Len(wires) = Len(n)
    THEN IF Len(n) = 0
         THEN [exc |-> Raise("IndexError", 174), op_list |-> <<>>]
         ELSE LET X == IF Last(n) = 0 THEN <<PauliX(Last(wires))>> ELSE <<>>
              IN  [exc |-> NoExc,
                   op_list |-> X \o <<CtrlPauliZ(ButLast(wires),
                                                 [i \in 1..(Len(n) - 1) |-> 1],
                                                 Last(wires))>> \o X]
    ELSE [exc |-> Raise("ValueError", 184), op_list |-> <<>>]

\* compute_decomposition(wires, n): [exc, op_list]
compute_decomposition(wires, n) ==
    IF Len(wires) = Len(n)
    THEN IF Len(n) = 0
         THEN [exc |-> Raise("IndexError", 174), op_list |-> <<>>]
         ELSE LET X == IF Last(n) = 0 THEN <<PauliX(Last(wires))>> ELSE <<>>
              IN  [exc |-> NoExc,
                   op_list |-> X \o <<CtrlPauliZ(ButLast(wires), ButLast(n), Last(wires))>>
                               \o X]
    ELSE [exc |-> Raise("ValueError", 184), op_list |-> <<>>]

\* the computational basis states of a register: one bit per wire
BasisStates(wires) == [Range(wires) -> {0, 1}]

\* the register before any gate: every amplitude is its own initial amplitude
InitialRegister(wires) == [b \in BasisStates(wires) |-> [src |-> b, sgn |-> 1]]

\* bit-flip: swaps the amplitudes of the basis states that differ in that wire
ApplyPauliX(g, a) ==
    [b \in DOMAIN a |-> a[[b EXCEPT ![g.wires[1]] = 1 - @]]]

\* phase-flip on the target iff every control wire has its control value
\* and the target is 1
ApplyCtrlPauliZ(g, a) ==
    [b \in DOMAIN a |->
        IF /\ \A i \in 1..Len(g.control) : b[g.control[i]] = g.control_values[i]
           /\ b[g.wires[1]] = 1
        THEN [a[b] EXCEPT !.sgn = -@]
        ELSE a[b]]

ApplyOp(g, a) == IF g.name = "PauliX" THEN ApplyPauliX(g, a) ELSE ApplyCtrlPauliZ(g, a)

----------------------------------------------------------------------------
(* Inputs of the FlipSign calls *)

WireIds == 0..(MaxWires - 1)

\* lists of 1..MaxWires distinct integer wire labels
WireLists ==
    {w \in UNION {[1..k -> WireIds] : k \in 1..MaxWires} :
        \A i, j \in 1..Len(w) : i # j => w[i] # w[j]}

\* bit vectors of length at most MaxWires, the empty one included
BitLists == UNION {[1..k -> {0, 1}] : k \in 0..MaxWires}

\* state specifiers: integers (negative and too large ones included), binary
\* lists, non-binary and non-integer lists, values of other types
NArgs ==
    {PyInt(k) : k \in (-1)..Pow2(MaxWires)}
    \cup {PyList(b, "int") : b \in BitLists}
    \cup {PyList(<<2>>, "int"), PyList(<<0, 2>>, "int"), PyList(<<1, 0>>, "float")}
    \cup {PyOther("float"), PyOther("bool"), PyOther("str"), None}

\* wires: lists of distinct integers, and the malformed ones
WiresArgs ==
    {PyList(w, "int") : w \in WireLists}
    \cup {PyList(<<>>, "int"), PyList(<<0, 1>>, "float"), PyList(<<0>>, "str")}
    \cup {PyOther("tuple"), PyOther("int"), None}

----------------------------------------------------------------------------
(* The FlipSign harness *)

Init ==
    /\ call = NoCall
    /\ exc = NoExc
    /\ ret = None
    /\ prev = NoCall
    /\ self = NoSelf
    /\ op_list = <<>>
    /\ pc = 0
    /\ amp = <<>>
    /\ stdout = <<>>

\* FlipSign(n, wires=wires)
Construct(n, wires) ==
    /\ call = NoCall
    /\ LET r == FlipSign_init(n, wires)
       IN  /\ exc' = r.exc
           /\ self' = IF r.exc = NoExc
                      THEN [constructed |-> TRUE, wires |-> r.wires, n |-> r.n]
                      ELSE NoSelf
    /\ call' = [fn |-> "__init__", args |-> <<n, wires>>]
    /\ UNCHANGED <<ret, prev, op_list, pc, amp, stdout>>

\* the outcome of a compute_decomposition call: the gate list and a fresh
\* register over the wires, or the exception
Decomposed(wires, n) ==
    LET r == compute_decomposition(wires, n)
    IN  /\ exc' = r.exc
        /\ op_list' = r.op_list
        /\ pc' = 0
        /\ amp' = IF r.exc = NoExc THEN InitialRegister(wires) ELSE <<>>
        /\ call' = [fn |-> "compute_decomposition",
                    args |-> <<PyList(wires, "int"), PyList(n, "int")>>]

\* op.decomposition() of a constructed operator:
\* compute_decomposition(wires=self.wires, **self.hyperparameters)
Decomposition ==
    /\ call.fn = "__init__"
    /\ self.constructed
    /\ Decomposed(self.wires, self.n)
    /\ UNCHANGED <<ret, prev, self, stdout>>

\* FlipSign.compute_decomposition(wires, n) called directly
ComputeDecomposition(wires, n) ==
    /\ call = NoCall
    /\ Decomposed(wires, n)
    /\ UNCHANGED <<ret, prev, self, stdout>>

\* the next gate of op_list acts on the register
ApplyGate ==
    /\ call.fn = "compute_decomposition"
    /\ exc = NoExc
    /\ pc < Len(op_list)
    /\ amp' = ApplyOp(op_list[pc + 1], amp)
    /\ pc' = pc + 1
    /\ UNCHANGED <<call, exc, ret, prev, self, op_list, stdout>>

\* FlipSign.to_list(n, n_wires)
ToList(n, n_wires) ==
    /\ call = NoCall
    /\ LET r == to_list(n, n_wires)
       IN  /\ exc' = r.exc
           /\ ret' = IF r.exc = NoExc THEN PyList(r.ret, "int") ELSE None
    /\ call' = [fn |-> "to_list", args |-> <<PyInt(n), PyInt(n_wires)>>]
    /\ UNCHANGED <<prev, self, op_list, pc, amp, stdout>>

\* FlipSign.to_number(arr_bin) of the list a to_list call returned
ToNumber ==
    /\ call.fn = "to_list"
    /\ exc = NoExc
    /\ ret' = PyInt(to_number(ret.items))
    /\ call' = [fn |-> "to_number", args |-> <<ret>>]
    /\ prev' = call
    /\ UNCHANGED <<exc, self, op_list, pc, amp, stdout>>

Next ==
    \/ \E n \in NArgs, wires \in WiresArgs : Construct(n, wires)
    \/ Decomposition
    \/ \E wires \in WireLists \cup {<<>>}, n \in BitLists : ComputeDecomposition(wires, n)
    \/ ApplyGate
    \/ \E n \in (-1)..Pow2(MaxWires), n_wires \in 0..MaxWires : ToList(n, n_wires)
    \/ ToNumber

Spec == Init /\ [][Next]_vars

----------------------------------------------------------------------------
(* Properties of the FlipSign component, checked under Spec *)

\* the arguments of the last compute_decomposition call
ArgWires == call.args[1].items
ArgBits == call.args[2].items

\* the bits of basis state b read in the order of the wires
BitsInWireOrder(b, wires) == [i \in 1..Len(wires) |-> b[wires[i]]]

C2_BitVectorAccepted ==
    (/\ call.fn = "__init__"
     /\ call.args[1].ty = "list"
     /\ call.args[1].elt = "int"
     /\ \A i \in 1..Len(call.args[1].items) : call.args[1].items[i] \in {0, 1}
     /\ call.args[2].ty = "list"
     /\ call.args[2].elt = "int"
     /\ Len(call.args[2].items) >= 1
     /\ Len(call.args[1].items) = Len(call.args[2].items))
    => (exc = NoExc /\ self.constructed /\ self.n = call.args[1].items)

\* C3: to_number(to_list(k, w)) = k for w >= 1 and 0 <= k <= 2^w - 1, the list
\* having exactly w elements.
C3_RoundTrip ==
    (/\ call.fn = "to_number"
     /\ prev.fn = "to_list"
     /\ prev.args[2].num >= 1
     /\ prev.args[1].num >= 0
     /\ prev.args[1].num <= Pow2(prev.args[2].num) - 1)
    => (/\ ret = PyInt(prev.args[1].num)
        /\ Len(call.args[1].items) = prev.args[2].num)

\* 6 encoded in 3 wires is [1, 1, 0], decoded again as 6
C3_Witness ==
    /\ call.fn = "to_number"
    /\ prev.args = <<PyInt(6), PyInt(3)>>
    /\ call.args[1].items = <<1, 1, 0>>
    /\ ret.num = 6

\* C4: for n >= 0 and w >= 1, to_list(n, w) raises iff the minimal binary
\* representation of n has more than w digits, that is iff n >= 2^w; and so
\* does construction with the integer n over w integer wires.
C4_OverflowIffTooManyBits ==
    /\ (call.fn = "to_list" /\ call.args[1].num >= 0 /\ call.args[2].num >= 1) =>
          /\ (exc # NoExc) <=> (Len(FormatBin(call.args[1].num)) > call.args[2].num)
          /\ (exc # NoExc) <=> (call.args[1].num >= Pow2(call.args[2].num))
    /\ (/\ call.fn = "__init__"
        /\ call.args[1].ty = "int"
        /\ call.args[1].num >= 0
        /\ call.args[2] \in {PyList(w, "int") : w \in WireLists}) =>
          /\ (exc # NoExc) <=> (Len(FormatBin(call.args[1].num)) > Len(call.args[2].items))
          /\ (exc = NoExc) <=> self.constructed

\* encoding 6 into 2 wires fails
C4_Witness ==
    /\ call.fn = "to_list"
    /\ call.args = <<PyInt(6), PyInt(2)>>
    /\ exc = Raise("ValueError", 135)

\* C5: for wires and bits of the same length w >= 1, compute_decomposition
\* returns [X(last wire), CZ, X(last wire)] when bits[-1] = 0 and [CZ] alone
\* otherwise, CZ being the phase-flip on the last wire controlled by
\* wires[:-1] with control values bits[:-1]; the length is 3 or 1, never 2.
C5_DecompositionShape ==
    (/\ call.fn = "compute_decomposition"
     /\ Len(ArgWires) = Len(ArgBits)
     /\ Len(ArgWires) >= 1)
    => LET w == Len(ArgWires)
           x == [name |-> "PauliX", wires |-> <<ArgWires[w]>>,
                 control |-> <<>>, control_values |-> <<>>]
           cz == [name |-> "C(PauliZ)", wires |-> <<ArgWires[w]>>,
                  control |-> [i \in 1..(w - 1) |-> ArgWires[i]],
                  control_values |-> [i \in 1..(w - 1) |-> ArgBits[i]]]
       IN  /\ exc = NoExc
           /\ op_list = (IF ArgBits[w] = 0 THEN <<x, cz, x>> ELSE <<cz>>)
           /\ Len(op_list) = (IF ArgBits[w] = 0 THEN 3 ELSE 1)
           /\ Len(op_list) # 2
           /\ \A i \in 1..Len(op_list) :
                 /\ op_list[i].name = "C(PauliZ)" => Len(op_list[i].control) = w - 1
                 /\ op_list[i].name = "PauliX" => op_list[i].wires = <<ArgWires[w]>>

\* wires [2, 0, 1], bits [0, 1, 0]: three gates, two controls
C5_Witness ==
    /\ call.fn = "compute_decomposition"
    /\ ArgWires = <<2, 0, 1>>
    /\ ArgBits = <<0, 1, 0>>
    /\ Len(op_list) = 3
    /\ op_list[2].control = <<2, 0>>
    /\ op_list[2].control_values = <<0, 1>>

\* the wires argument is no list, is empty, or is no list of integers
BadWires(wires) == wires.ty # "list" \/ Len(wires.items) = 0 \/ wires.elt # "int"

\* C6: whenever the wires are empty or no list of integers, construction fails
\* with an error of the wires validation, whatever the state specifier is, and
\* no operator is constructed.
C6_WiresValidatedFirst ==
    (call.fn = "__init__" /\ BadWires(call.args[2])) =>
        /\ exc.type = "ValueError"
        /\ exc.line \in {82, 85, 88}
        /\ ~self.constructed

\* empty wires with a negative specifier: the error is the one about the wires
C6_Witness ==
    /\ call.fn = "__init__"
    /\ call.args = <<PyInt(-1), PyList(<<>>, "int")>>
    /\ exc = Raise("ValueError", 85)

\* C7: a constructed operator stores a bit vector of length len(wires) with
\* elements 0 or 1, and its decomposition raises nothing.
C7_ConstructedStateIsValid ==
    /\ self.constructed =>
          /\ Len(self.n) = Len(self.wires)
          /\ \A i \in 1..Len(self.n) : self.n[i] \in {0, 1}
    /\ (self.constructed /\ call.fn = "compute_decomposition") => exc = NoExc

\* FlipSign(1, wires=[1, 0, 2]) decomposed without error
C7_Witness ==
    /\ self.constructed
    /\ self.wires = <<1, 0, 2>>
    /\ self.n = <<0, 0, 1>>
    /\ call.fn = "compute_decomposition"
    /\ exc = NoExc
    /\ Len(op_list) = 1

----------------------------------------------------------------------------
(* Numbers of the estimator: first_quantization.py                         *)
(*                                                                         *)
(* A number is [ty, k]: ty is its type (Python int, float, complex; NumPy  *)
(* float64, complex128) and k the class of its value:                      *)
(*   "zero"; "pos", "neg" (finite, non-zero, real); "nz" (non-zero         *)
(*   complex); "fin" (finite, nothing else known); "nan"; "ninf" (-inf);   *)
(*   "inf" (an infinity); "any" (nothing known).                           *)
(* A raised exception is [ty |-> "raise", k |-> its type]; every operation *)
(* hands on the exception of its first raising operand.  Python raises     *)
(* ZeroDivisionError on a zero divisor; NumPy returns nan or an infinity.  *)
(* Overflow and underflow of doubles are outside the model.                *)

Num(ty, k) == [ty |-> ty, k |-> k]
Exception(type) == [ty |-> "raise", k |-> type]
IsRaise(v) == v.ty = "raise"

\* a Python int
IntV(i) == Num("int", IF i > 0 THEN "pos" ELSE IF i = 0 THEN "zero" ELSE "neg")

\* np.pi, a Python float
Pi == Num("float", "pos")

IsNumpy(v) == v.ty \in {"float64", "complex128"}
IsComplex(v) == v.ty \in {"complex", "complex128"}

\* the type of the result of an arithmetic operation on a and b
TyJoin(a, b) ==
    IF IsComplex(a) \/ IsComplex(b)
    THEN (IF IsNumpy(a) \/ IsNumpy(b) THEN "complex128" ELSE "complex")
    ELSE IF IsNumpy(a) \/ IsNumpy(b) THEN "float64"
    ELSE IF a.ty = "float" \/ b.ty = "float" THEN "float"
    ELSE "int"

\* the class of a product of two finite non-zero values
SignProduct(j, k) ==
    IF j \in {"pos", "neg"} /\ k \in {"pos", "neg"}
    THEN (IF j = k THEN "pos" ELSE "neg")
    ELSE IF j \in {"pos", "neg", "nz"} /\ k \in {"pos", "neg", "nz"} THEN "nz"
    ELSE "fin"

\* a * b
Mul(a, b) ==
    IF IsRaise(a) THEN a
    ELSE IF IsRaise(b) THEN b
    ELSE Num(TyJoin(a, b),
             IF "any" \in {a.k, b.k} THEN "any"
             ELSE IF "nan" \in {a.k, b.k} THEN "nan"
             ELSE IF {a.k, b.k} \cap {"inf", "ninf"} # {}
                  THEN (IF "zero" \in {a.k, b.k} THEN "nan" ELSE "inf")
             ELSE IF "zero" \in {a.k, b.k} THEN "zero"
             ELSE SignProduct(a.k, b.k))

\* a / b (true division)
Div(a, b) ==
    IF IsRaise(a) THEN a
    ELSE IF IsRaise(b) THEN b
    ELSE LET ty == IF TyJoin(a, b) = "int" THEN "float" ELSE TyJoin(a, b)
         IN  IF b.k = "zero"
             THEN IF IsNumpy(a) \/ IsNumpy(b)
                  THEN Num(ty, IF a.k \in {"zero", "nan"} THEN "nan"
                               ELSE IF a.k \in {"fin", "any"} THEN "any" ELSE "inf")
                  ELSE Exception("ZeroDivisionError")
             ELSE Num(ty,
                      IF "any" \in {a.k, b.k} \/ b.k = "fin" THEN "any"
                      ELSE IF "nan" \in {a.k, b.k} THEN "nan"
                      ELSE IF b.k \in {"inf", "ninf"}
                           THEN (IF a.k \in {"inf", "ninf"} THEN "nan" ELSE "zero")
                      ELSE IF a.k \in {"inf", "ninf"} THEN "inf"
                      ELSE IF a.k = "zero" THEN "zero"
                      ELSE SignProduct(a.k, b.k))

\* a + b
Add(a, b) ==
    IF IsRaise(a) THEN a
    ELSE IF IsRaise(b) THEN b
    ELSE Num(TyJoin(a, b),
             IF "any" \in {a.k, b.k} THEN "any"
             ELSE IF "nan" \in {a.k, b.k} THEN "nan"
             ELSE IF {a.k, b.k} \cap {"inf", "ninf"} # {} THEN "any"
             ELSE IF a.k = "zero" THEN b.k
             ELSE IF b.k = "zero" THEN a.k
             ELSE IF a.k = b.k /\ a.k \in {"pos", "neg"} THEN a.k
             ELSE "fin")

\* a ** 2
Square(a) ==
    IF IsRaise(a) THEN a
    ELSE Num(a.ty, IF a.k \in {"pos", "neg"} THEN "pos"
                   ELSE IF a.k = "ninf" THEN "inf"
                   ELSE a.k)

\* a ** 2 + b ** 2 of two reals: zero only when both are zero
SumOfSquares(a, b) ==
    IF IsRaise(a) THEN a
    ELSE IF IsRaise(b) THEN b
    ELSE Num(TyJoin(a, b),
             IF "any" \in {a.k, b.k} THEN "any"
             ELSE IF "nan" \in {a.k, b.k} THEN "nan"
             ELSE IF {a.k, b.k} \cap {"inf", "ninf"} # {} THEN "inf"
             ELSE IF {a.k, b.k} \cap {"pos", "neg"} # {} THEN "pos"
             ELSE IF a.k = "zero" /\ b.k = "zero" THEN "zero"
             ELSE "fin")

\* base ** e for a Python int or float base and a float exponent e in (0, 1):
\* a negative base gives a complex number
PowFraction(base) ==
    IF base.k = "neg" THEN Num("complex", "nz") ELSE Num("float", base.k)

\* 2 ** e for a Python int e
Exp2Int(e) == Num(IF e >= 0 THEN "int" ELSE "float", "pos")

\* 2 ** x for a NumPy float x
Exp2(x) ==
    Num("float64", IF x.k \in {"zero", "pos", "neg", "fin"} THEN "pos"
                   ELSE IF x.k = "ninf" THEN "zero"
                   ELSE x.k)

\* np.log2(n) of a Python int n: -inf at 0 and nan below, with a warning only
NpLog2Int(n) ==
    Num("float64", IF n > 1 THEN "pos" ELSE IF n = 1 THEN "zero"
                   ELSE IF n = 0 THEN "ninf" ELSE "nan")

\* np.ceil(x) of a NumPy float: the class is kept (a positive value ceils to >= 1)
NpCeil(x) == x

\* np.round((1 / d) * np.arcsin(np.sqrt(1 / (4 * c)))) with d = 2 pi / 2 ** br:
\* c is in (1/2, 1], so the angle is in [pi/6, pi/4) and the number of steps in
\* 2 ** br * [1/12, 1/8), which rounds to 0 for br <= 2 and to >= 1 for br >= 3
RoundedSteps(c, br) ==
    Num("float64", IF c.k = "pos" THEN (IF br >= 3 THEN "pos" ELSE "zero")
                   ELSE IF c.k = "nan" THEN "nan" ELSE "any")

\* np.sin(theta) and np.sin(2 * theta) for theta in [0, pi/4 + d/2], d <= pi/4
NpSin(theta) == Num("float64", theta.k)

\* success_prob(n, br)
success_prob(n, br) ==
    LET c == Div(IntV(n), Exp2(NpCeil(NpLog2Int(n))))
        d == Div(Mul(IntV(2), Pi), Exp2Int(br))
        theta == Mul(d, RoundedSteps(c, br))
        \* 2 - 4 * c, negative or zero for c in (1/2, 1]
        two_minus_4c == Add(IntV(2), Mul(IntV(-4), c))
        first == Add(IntV(1), Mul(two_minus_4c, Square(NpSin(theta))))
        second == NpSin(Mul(IntV(2), theta))
    IN  Mul(c, SumOfSquares(first, second))

\* n_p = int(np.ceil(np.log2(n ** (1 / 3) + 1))) for n >= 0: the least k with
\* 2 ** k >= n ** (1 / 3) + 1, that is with (2 ** k - 1) ** 3 >= n
RECURSIVE LeastBits(_, _)
LeastBits(n, k) ==
    IF (Pow2(k) - 1) * (Pow2(k) - 1) * (Pow2(k) - 1) >= n THEN k ELSE LeastBits(n, k + 1)

\* line 74: a negative n makes n ** (1 / 3) complex, which np.ceil rejects
N_p(n) ==
    IF PowFraction(IntV(n)).ty = "complex"
    THEN Exception("TypeError")
    ELSE IntV(LeastBits(n, 0))

\* 1 - 1 / eta for a Python int eta: 1 / 0 raises; the difference is exactly
\* zero for eta = 1 only, positive for eta >= 2 and for eta < 0
OneMinusInverse(eta) ==
    IF IsRaise(Div(IntV(1), IntV(eta))) THEN Div(IntV(1), IntV(eta))
    ELSE Num("float", IF eta = 1 THEN "zero" ELSE "pos")

\* np.maximum(a, b): a NumPy scalar; nan if either is nan
NpMaximum(a, b) ==
    Num(IF IsComplex(a) \/ IsComplex(b) THEN "complex128" ELSE "float64",
        IF "any" \in {a.k, b.k} THEN "any"
        ELSE IF "nan" \in {a.k, b.k} THEN "nan"
        ELSE IF IsComplex(a) \/ IsComplex(b) THEN "fin"
        ELSE IF "pos" \in {a.k, b.k} THEN "pos"
        ELSE IF a.k = b.k THEN a.k
        ELSE IF {a.k, b.k} = {"zero", "neg"} THEN "zero"
        ELSE "fin")

\* the first statement, in program order, whose evaluation raised
RECURSIVE FirstRaise(_, _)
FirstRaise(stmts, i) ==
    IF i > Len(stmts) THEN 0
    ELSE IF IsRaise(stmts[i].v) THEN i
    ELSE FirstRaise(stmts, i + 1)

\* norm(eta, n, omega, br, charge): [exc, ret, out]; eta, n, br, charge are
\* Python ints, omega is a Python float of class omega; out is what the two
\* print calls write
norm(eta, n, omega, br, charge) ==
    LET om == Num("float", omega)
        n_p == N_p(n)
        l_nu == Mul(Mul(IntV(4), Pi), PowFraction(IntV(n)))
        p_nu == Num("float", "pos")
        l_nu_1 == Num("float", "pos")
        p_eq == Mul(Mul(success_prob(3, 8), success_prob(3 * eta + 2 * charge, br)),
                    Square(success_prob(eta, br)))
        lambda_u == Div(Mul(Mul(l_nu, IntV(eta)), IntV(eta + charge)),
                        Mul(Pi, PowFraction(om)))
        lambda_v == Div(Mul(Mul(l_nu, IntV(eta)), IntV(eta - 1)),
                        Mul(Mul(IntV(2), Pi), PowFraction(om)))
        lambda_t_p == Mul(Div(Mul(Mul(IntV(6), IntV(eta)), Square(Pi)), PowFraction(om)),
                          Exp2Int(2 * LeastBits(n, 0) - 2))
        lambda_u_1 == Div(Mul(l_nu_1, lambda_u), l_nu)
        lambda_v_1 == Div(Mul(l_nu_1, lambda_v), l_nu)
        lambda_a == Add(Add(lambda_t_p, lambda_u_1), lambda_v_1)
        lambda_b == Div(Add(lambda_u_1, Div(lambda_v_1, OneMinusInverse(eta))), p_nu)
        stmts == <<[line |-> 74, v |-> n_p],
                   [line |-> 81, v |-> p_eq],
                   [line |-> 83, v |-> lambda_u],
                   [line |-> 84, v |-> lambda_v],
                   [line |-> 86, v |-> lambda_t_p],
                   [line |-> 87, v |-> lambda_u_1],
                   [line |-> 88, v |-> lambda_v_1],
                   [line |-> 90, v |-> lambda_a],
                   [line |-> 91, v |-> lambda_b]>>
        r == FirstRaise(stmts, 1)
    IN  IF r # 0
        THEN [exc |-> Raise(stmts[r].v.k, stmts[r].line), ret |-> None, out |-> <<>>]
        ELSE [exc |-> NoExc,
              ret |-> Div(NpMaximum(lambda_a, lambda_b), p_eq),
              out |-> << <<lambda_u_1, lambda_v_1, lambda_t_p>>, <<p_nu, p_eq, n_p>> >>]

----------------------------------------------------------------------------
(* The estimator harness *)

IntArgs == (-1)..MaxEta
OmegaArgs == {"neg", "zero", "pos"}
BrArgs == {2, 3, 7}
ChargeArgs == {-1, 0, 1}

\* success_prob(n, br)
SuccessProb(n, br) ==
    /\ call = NoCall
    /\ call' = [fn |-> "success_prob", args |-> [n |-> n, br |-> br]]
    /\ exc' = NoExc
    /\ ret' = success_prob(n, br)
    /\ UNCHANGED <<prev, self, op_list, pc, amp, stdout>>

\* norm(eta, n, omega, br, charge)
Norm(eta, n, omega, br, charge) ==
    LET r == norm(eta, n, omega, br, charge)
    IN  /\ call = NoCall
        /\ call' = [fn |-> "norm",
                    args |-> [eta |-> eta, n |-> n, omega |-> omega, br |-> br,
                              charge |-> charge]]
        /\ exc' = r.exc
        /\ ret' = r.ret
        /\ stdout' = stdout \o r.out
        /\ UNCHANGED <<prev, self, op_list, pc, amp>>

NextEstimator ==
    \/ \E n \in IntArgs, br \in BrArgs : SuccessProb(n, br)
    \/ \E eta \in IntArgs, n \in IntArgs, omega \in OmegaArgs, br \in BrArgs,
          charge \in ChargeArgs : Norm(eta, n, omega, br, charge)

SpecEstimator == Init /\ [][NextEstimator]_vars

----------------------------------------------------------------------------
(* Properties of the estimator, checked under SpecEstimator *)

\* C8: norm writes nothing to standard output; its only effect is its
\* return value.
C8_NormPrintsNothing ==
    call.fn = "norm" => stdout = <<>>

\* C9: norm fails, returning no value, whenever eta <= 0, n <= 0 or
\* omega <= 0 (an exception of any type is counted as the failure).
C9_NormRejectsNonPositive ==
    (/\ call.fn = "norm"
     /\ \/ call.args.eta <= 0
        \/ call.args.n <= 0
        \/ call.args.omega \in {"neg", "zero"})
    => (exc # NoExc /\ ret = None)

\* C10: for eta >= 1 (eta = 1 included), n >= 1, omega > 0 and charge = 0,
\* norm raises nothing and returns a number: no divisor is zero.
C10_NormTotalOnDomain ==
    (/\ call.fn = "norm"
     /\ call.args.eta >= 1
     /\ call.args.n >= 1
     /\ call.args.omega = "pos"
     /\ call.args.charge = 0)
    => (exc = NoExc /\ ret # None)

====
